---- MODULE Spec2Model ----
(***************************************************************************)
(* Model of read_appinfo (src/steam_detector.py), the decoder of Steam's   *)
(* appinfo.vdf cache.  The file is a sequence of bytes (0..255); the       *)
(* function is modelled statement group by statement group, with the file  *)
(* object's position, the locals of the function and the dictionary it     *)
(* builds as the state.                                                    *)
(***************************************************************************)
EXTENDS Integers, Sequences, FiniteSets, TLC

VARIABLES buf, pos, pc, err, return_dict, appid, end, app, index, name, obj_type

vars == <<buf, pos, pc, err, return_dict, appid, end, app, index, name, obj_type>>

(***************************************************************************)
(* Bounds of the model.                                                    *)
(***************************************************************************)
\* records in front of the sentinel in the generated files
MaxRecords == 2
\* how many indices past the end of the payload a value scan is followed
\* through before the (unbounded) Python index is folded back
MaxOverrun == 2

Min(a, b) == IF a < b THEN a ELSE b

(***************************************************************************)
(* Bytes, integers and text.                                               *)
(***************************************************************************)
RECURSIVE Unpack(_)
\* struct.Struct('<I').unpack / the halves of '<Q': little-endian value
Unpack(b) == IF b = <<>> THEN 0 ELSE b[1] + 256 * Unpack(Tail(b))

\* int64.unpack: the value is lo + 2^32 * hi
Unpack64(b) == [lo |-> Unpack(SubSeq(b, 1, 4)), hi |-> Unpack(SubSeq(b, 5, 8))]

\* Python slice b[i:j] (0-based, j exclusive, clipped to the length)
Slice(b, i, j) == SubSeq(b, i + 1, Min(j, Len(b)))

\* first 0-based position at which m occurs in b (bytes.index), -1 if none
FindFrom(b, m, i) ==
    LET hits == {k \in i..(Len(b) - Len(m)) : Slice(b, k, k + Len(m)) = m}
    IN  IF hits = {} THEN -1 ELSE CHOOSE k \in hits : \A h \in hits : k <= h

\* m in b
Contains(b, m) == FindFrom(b, m, 0) >= 0

\* a mutation of IndexOf: the last position at which m occurs in b
IndexOfLast(b, m) ==
    LET hits == {k \in 0..(Len(b) - Len(m)) : Slice(b, k, k + Len(m)) = m}
    IN  IF hits = {} THEN -1 ELSE CHOOSE k \in hits : \A h \in hits : h <= k

\* b.index(m)
IndexOf(b, m) == FindFrom(b, m, 0)

IsCont(x) == x >= 128 /\ x <= 191

\* length of the UTF-8 sequence that starts at b[i]; 0 when none starts there
\* (the strict decoder of bytes.decode: no overlong forms, no surrogates,
\* nothing above U+10FFFF)
Utf8Len(b, i) ==
    LET c  == b[i]
        n  == Len(b)
        c2 == IF n >= i + 1 THEN b[i + 1] ELSE 0
        c3 == IF n >= i + 2 THEN b[i + 2] ELSE 0
        c4 == IF n >= i + 3 THEN b[i + 3] ELSE 0
    IN  IF c < 128 THEN 1
        ELSE IF c >= 194 /\ c <= 223 THEN (IF IsCont(c2) THEN 2 ELSE 0)
        ELSE IF c = 224 THEN (IF c2 >= 160 /\ c2 <= 191 /\ IsCont(c3) THEN 3 ELSE 0)
        ELSE IF c = 237 THEN (IF c2 >= 128 /\ c2 <= 159 /\ IsCont(c3) THEN 3 ELSE 0)
        ELSE IF c >= 225 /\ c <= 239 THEN (IF IsCont(c2) /\ IsCont(c3) THEN 3 ELSE 0)
        ELSE IF c = 240 THEN (IF c2 >= 144 /\ c2 <= 191 /\ IsCont(c3) /\ IsCont(c4) THEN 4 ELSE 0)
        ELSE IF c >= 241 /\ c <= 243 THEN (IF IsCont(c2) /\ IsCont(c3) /\ IsCont(c4) THEN 4 ELSE 0)
        ELSE IF c = 244 THEN (IF c2 >= 128 /\ c2 <= 143 /\ IsCont(c3) /\ IsCont(c4) THEN 4 ELSE 0)
        ELSE 0

\* code point of the UTF-8 sequence that starts at b[i]
Utf8Point(b, i) ==
    IF Utf8Len(b, i) = 1 THEN b[i]
    ELSE IF Utf8Len(b, i) = 2 THEN (b[i] - 192) * 64 + (b[i + 1] - 128)
    ELSE IF Utf8Len(b, i) = 3
         THEN (b[i] - 224) * 4096 + (b[i + 1] - 128) * 64 + (b[i + 2] - 128)
    ELSE (b[i] - 240) * 262144 + (b[i + 1] - 128) * 4096 + (b[i + 2] - 128) * 64
         + (b[i + 3] - 128)

\* b decodes: every byte starts a sequence or continues the sequence of one
\* of the three bytes in front of it
Utf8Valid(b) ==
    \A i \in 1..Len(b) :
        IF IsCont(b[i])
        THEN \E j \in 1..(i - 1) : i - j <= 3 /\ Utf8Len(b, j) > i - j
        ELSE Utf8Len(b, i) > 0

\* the positions of b at which a character starts, in order
Utf8Starts(b) == SelectSeq([i \in 1..Len(b) |-> i], LAMBDA i : ~IsCont(b[i]))

\* the code points of a valid UTF-8 byte string, in order
Utf8Chars(b) == [n \in 1..Len(Utf8Starts(b)) |-> Utf8Point(b, Utf8Starts(b)[n])]

\* bytes.decode(b): a str (sequence of code points) or UnicodeDecodeError
\* (x is b, evaluated once)
Decode(b) ==
    CHOOSE r \in { IF Utf8Valid(x) THEN [ok |-> TRUE, text |-> Utf8Chars(x)]
                   ELSE [ok |-> FALSE, text |-> <<>>] : x \in {b} } : TRUE

\* Python None and a present value
None == [some |-> FALSE, v |-> <<>>]
Some(x) == [some |-> TRUE, v |-> x]

(***************************************************************************)
(* Constants of the format.                                                *)
(***************************************************************************)
Magic == <<41, 68, 86, 7>>
NameMarker == <<1, 4, 0, 0, 0>>
TypeMarker == <<1, 5, 0, 0, 0>>
IconMarker == <<1, 88, 1, 0, 0>>
MarkerLen == 5
IconLen == 40

T_Game == <<71, 97, 109, 101>>
T_DLC == <<68, 76, 67>>
T_Demo == <<68, 101, 109, 111>>
T_Config == <<67, 111, 110, 102, 105, 103>>
T_Beta == <<66, 101, 116, 97>>
T_Tool == <<84, 111, 111, 108>>
T_ownersonly == <<111, 119, 110, 101, 114, 115, 111, 110, 108, 121>>
T_Application == <<65, 112, 112, 108, 105, 99, 97, 116, 105, 111, 110>>

\* the list of line 97
ItemTypes == {T_Game, T_DLC, T_Demo, T_Config, T_Beta, T_Tool, T_ownersonly, T_Application}

(***************************************************************************)
(* The files the decoder is run on.  They are assembled from records with  *)
(* chosen payloads, so that every marker, every kind of value and every    *)
(* kind of damage occurs, in files of up to MaxRecords records.            *)
(***************************************************************************)
\* little-endian encoding of n on 4 bytes
Pack32(n) == <<n % 256, (n \div 256) % 256, (n \div 65536) % 256, (n \div 16777216) % 256>>

\* the 4 + 4 + 8 + 20 + 4 + 20 bytes of info_state, last_updated, picsToken,
\* sha1Text, change_number and sha1Binary of a generated record
Meta == [i \in 1..60 |-> IF i \in {3, 4, 7, 8, 13, 14, 15, 16, 39, 40} THEN 0 ELSE 1 + (i % 5)]

Hex40 == [i \in 1..40 |-> IF i % 4 = 0 THEN 97 + (i % 6) ELSE 48 + (i % 10)]

T_OwnersOnly == <<79, 119, 110, 101, 114, 115, 79, 110, 108, 121>>
T_Unknown == <<85, 110, 107, 110, 111, 119, 110>>
T_game == <<103, 97, 109, 101>>
N_TF == <<84, 70>>
N_Accent == <<67, 195, 169>>
N_Invalid == <<84, 255>>

WithName(n) == NameMarker \o n \o <<0>>
WithType(t) == TypeMarker \o t \o <<0>>
WithIcon(h) == IconMarker \o h

P_name == WithName(N_TF)
P_type == WithType(T_Game)
P_icon == WithIcon(Hex40) \o <<0>>

NamePayloads ==
    { P_name,
      <<0, 3>> \o P_name \o <<8, 0>>,
      <<3>> \o NameMarker \o N_TF,
      NameMarker,
      WithName(<<>>),
      WithName(N_Accent),
      WithName(N_Invalid),
      WithName(<<65>>) \o WithName(<<66>>) }

TypePayloads ==
    { WithType(t) : t \in ItemTypes \cup {T_OwnersOnly, T_Unknown, T_game, <<>>} }
    \cup { TypeMarker \o T_DLC,
           <<9>> \o WithType(T_Tool) \o WithType(T_Demo) }

IconPayloads ==
    { P_icon,
      <<7, 0>> \o WithIcon(Hex40) \o <<50, 51>>,
      WithIcon(SubSeq(Hex40, 1, 10)),
      IconMarker,
      WithIcon(<<195, 169>> \o SubSeq(Hex40, 1, 38)),
      WithIcon(SubSeq(Hex40, 1, 39) \o <<195, 169>>),
      WithIcon(Hex40) \o WithIcon(SubSeq(Hex40, 2, 40) \o <<48>>) }

MixedPayloads ==
    { <<>>,
      <<2, 9, 0, 7>>,
      P_name \o P_type,
      P_name \o P_icon,
      P_type \o P_icon,
      P_icon \o P_type \o P_name,
      P_name \o P_type \o P_icon,
      NameMarker \o P_type,
      WithIcon(SubSeq(Hex40, 1, 20)) \o P_name,
      P_type \o <<4>> \o NameMarker \o N_TF }

Payloads == NamePayloads \cup TypePayloads \cup IconPayloads \cup MixedPayloads

\* a record that declares the given size
RecordSized(a, payload, size) == Pack32(a) \o Pack32(size) \o Meta \o payload

\* a record that declares its true size
Record(a, payload) == RecordSized(a, payload, Len(Meta) + Len(payload))

Sentinel == Pack32(0)

\* string_count and one string
StringTable == <<1, 0, 0, 0, 120, 0>>

FirstRecords == { Record(1, p) : p \in Payloads }

NextRecords == { Record(1, P_type), Record(2, WithName(<<65>>) \o P_icon), Record(1, WithName(<<66>>)) }

RECURSIVE Follow(_)
Follow(k) == IF k = 0 THEN {<<>>}
             ELSE {<<>>} \cup { r \o s : r \in NextRecords, s \in Follow(k - 1) }

RecordRuns ==
    IF MaxRecords = 0 THEN {<<>>}
    ELSE {<<>>} \cup { f \o s : f \in FirstRecords, s \in Follow(MaxRecords - 1) }

Tails == { Sentinel \o StringTable,
           Sentinel \o Record(3, P_name) \o Sentinel \o StringTable }

\* a file whose header gives the string table offset lo + 2^32 * hi
FileAt(rest, lo, hi) == Magic \o Pack32(1) \o Pack32(lo) \o Pack32(hi) \o rest

\* a file whose header points at the string table that ends it
File(rest) == FileAt(rest, Len(rest) - Len(StringTable), 0)

SoundFiles == { File(r \o t) : r \in RecordRuns, t \in Tails }

BaseRests ==
    { Sentinel \o StringTable,
      Record(1, P_name) \o Sentinel \o StringTable,
      Record(1, <<5>> \o P_name \o P_type \o P_icon) \o Record(2, P_type) \o Sentinel \o StringTable }

\* the offsets tried on a file whose part after the header is r
Offsets(r) == {0, 3, Len(r) - 5, Len(r) - 4, Len(r) - 3, Len(r), Len(r) + 10, 70000}

OffsetFiles ==
    UNION { { FileAt(r, o, 0) : o \in Offsets(r) } : r \in BaseRests }
    \cup { FileAt(r, 0, h) : r \in BaseRests, h \in {1, 16777216} }

Prefixes(b) == { SubSeq(b, 1, n) : n \in 0..Len(b) }

CutFiles ==
    UNION { Prefixes(FileAt(r, 0, 0)) : r \in BaseRests }
    \cup Prefixes(File(Record(1, P_name) \o Sentinel \o StringTable))

\* the sizes a first record with payload p declares in the files of SizedFiles
DeclaredSizes(p, next, tail) ==
    {0, 10, Len(Meta) - 2, Len(Meta) - 1, Len(Meta), Len(Meta) + 2, Len(Meta) + Len(p) - 1,
     Len(Meta) + Len(p) + 3,
     Len(Meta) + Len(p) + Len(next), Len(Meta) + Len(p) + Len(next) + Len(tail),
     Len(Meta) + Len(p) + Len(next) + Len(tail) + 1, 70000}

SizedFiles ==
    LET next == Record(2, P_type)
        tail == Sentinel \o StringTable
    IN  UNION { { File(RecordSized(1, p, s) \o next \o tail) : s \in DeclaredSizes(p, next, tail) } :
                p \in {<<2, 9, 0, 7>>, P_name, P_name \o P_icon} }

MagicFiles ==
    LET good == File(Record(1, P_name) \o Sentinel \o StringTable)
    IN  { <<>>, <<41>>, <<41, 68, 86>>, SubSeq(good, 2, Len(good)),
          <<41, 68, 86, 8>> \o SubSeq(good, 5, Len(good)),
          <<40>> \o SubSeq(good, 2, Len(good)),
          <<7, 86, 68, 41>> \o SubSeq(good, 5, Len(good)) }

\* "Team Fortress 2"
N_TeamFortress2 == <<84, 101, 97, 109, 32, 70, 111, 114, 116, 114, 101, 115, 115, 32, 50>>

\* the appid of Team Fortress 2
TeamFortress2 == 440

\* one record of appid 440 named "Team Fortress 2", and records in which the
\* name marker occurs again after the first name
NamedFiles ==
    { File(Record(TeamFortress2, WithName(N_TeamFortress2)) \o Sentinel \o StringTable),
      File(Record(TeamFortress2, <<6>> \o WithName(N_TeamFortress2) \o WithName(N_TF) \o P_type)
           \o Sentinel \o StringTable),
      File(Record(2, WithName(N_Accent) \o NameMarker \o N_TF) \o Sentinel \o StringTable) }

Inputs == SoundFiles \cup OffsetFiles \cup CutFiles \cup SizedFiles \cup MagicFiles \cup NamedFiles

(***************************************************************************)
(* The file object.                                                        *)
(***************************************************************************)
\* f.read(n) at position p for n >= 0: the next n bytes, or the fewer bytes
\* that are left (nothing at or past the end of the file)
ReadAt(p, n) == IF p >= Len(buf) THEN <<>> ELSE SubSeq(buf, p + 1, Min(p + n, Len(buf)))

\* f.read(n) at position p for any n: -1 reads to the end of the file, a
\* smaller n raises ValueError
ReadAny(p, n) ==
    IF n < -1 THEN [ok |-> FALSE, bytes |-> <<>>]
    ELSE IF n = -1 THEN [ok |-> TRUE, bytes |-> ReadAt(p, Len(buf))]
    ELSE [ok |-> TRUE, bytes |-> ReadAt(p, n)]

\* the value of `app` before the first record is read
NoApp ==
    [appid |-> 0, info_state |-> 0, last_updated |-> 0, picsToken |-> [lo |-> 0, hi |-> 0],
     sha1Text |-> <<>>, change_number |-> 0, sha1Binary |-> <<>>,
     name |-> None, type |-> None, icon_hash |-> None, binary_content |-> <<>>]

Failure(e, p) == [kind |-> "error", err |-> e, pos |-> p, appid |-> appid, end |-> end, app |-> app]

(***************************************************************************)
(* Lines 48-56: the magic, universe, the string table offset, and the read *)
(* of string_count at the string table.  The set of the outcomes: a seek   *)
(* to an offset of 2^32 or more either fails in seek() or succeeds and     *)
(* leaves nothing to read, depending on the platform.                      *)
(***************************************************************************)
\* a mutation of MagicOk: only the bytes that were read are compared
MagicOkPrefix(m) == m = SubSeq(Magic, 1, Len(m))

\* the test of line 49
MagicOk(m) == m = Magic

HeaderOutcomes ==
    LET magic      == ReadAt(0, 4)
        b_universe == ReadAt(4, 4)
        b_offset   == ReadAt(8, 8)
        previous_offset == 16
        string_table_offset == Unpack64(b_offset)
        target     == previous_offset + string_table_offset.lo
        b_count    == ReadAt(target, 4)
    IN  IF ~MagicOk(magic) THEN {Failure("SyntaxError", Len(magic))}
        ELSE IF Len(b_universe) < 4 THEN {Failure("struct.error", 4 + Len(b_universe))}
        ELSE IF Len(b_offset) < 8 THEN {Failure("struct.error", 8 + Len(b_offset))}
        ELSE IF string_table_offset.hi > 0
             THEN {Failure("OSError", previous_offset), Failure("struct.error", previous_offset)}
        ELSE IF Len(b_count) < 4 THEN {Failure("struct.error", target + Len(b_count))}
        ELSE {[kind |-> "ok", err |-> "none", pos |-> previous_offset,
               appid |-> appid, end |-> end, app |-> app]}

(***************************************************************************)
(* Lines 60-79: one pass of the loop up to the dictionary `app`, read at   *)
(* position p.                                                             *)
(***************************************************************************)
\* the test of line 61
IsSentinel(id) == id = 0

\* a mutation of DigestLen: digests of 24 bytes
DigestLenLong == 20 + 4

\* the 20 of f.read(20), lines 72 and 74
DigestLen == 20

RecordRead(p) ==
    LET b_appid == ReadAt(p, 4)
        id      == Unpack(b_appid)
        b_size  == ReadAt(p + 4, 4)
        size    == Unpack(b_size)
        p0      == p + 8
        e       == p0 + size
        b_info  == ReadAt(p0, 4)
        b_last  == ReadAt(p0 + 4, 4)
        b_pics  == ReadAt(p0 + 8, 8)
        sha1Text == ReadAt(p0 + 16, DigestLen)
        p1      == p0 + 16 + Len(sha1Text)
        b_change == ReadAt(p1, 4)
        p2      == p1 + 4
        sha1Binary == ReadAt(p2, DigestLen)
        p3      == p2 + Len(sha1Binary)
        content == ReadAny(p3, e - p3)
        fail(x, q, a, en) == [kind |-> "error", err |-> x, pos |-> q, appid |-> a, end |-> en, app |-> app]
    IN  IF Len(b_appid) < 4 THEN fail("struct.error", p + Len(b_appid), appid, end)
        ELSE IF IsSentinel(id) THEN [kind |-> "break", err |-> "none", pos |-> p + 4,
                             appid |-> 0, end |-> end, app |-> app]
        ELSE IF Len(b_size) < 4 THEN fail("struct.error", p + 4 + Len(b_size), id, end)
        ELSE IF Len(b_info) < 4 THEN fail("struct.error", p0 + Len(b_info), id, e)
        ELSE IF Len(b_last) < 4 THEN fail("struct.error", p0 + 4 + Len(b_last), id, e)
        ELSE IF Len(b_pics) < 8 THEN fail("struct.error", p0 + 8 + Len(b_pics), id, e)
        ELSE IF Len(b_change) < 4 THEN fail("struct.error", p1 + Len(b_change), id, e)
        ELSE IF ~content.ok THEN fail("ValueError", p3, id, e)
        ELSE [kind |-> "ok", err |-> "none", pos |-> p3 + Len(content.bytes),
              appid |-> id, end |-> e,
              app |-> [appid |-> id,
                       info_state |-> Unpack(b_info),
                       last_updated |-> Unpack(b_last),
                       picsToken |-> Unpack64(b_pics),
                       sha1Text |-> sha1Text,
                       change_number |-> Unpack(b_change),
                       sha1Binary |-> sha1Binary,
                       name |-> None, type |-> None, icon_hash |-> None,
                       binary_content |-> content.bytes]]

\* binary_content[index:index + 1]
Current == Slice(app.binary_content, index, index + 1)

\* index += 1.  Every index past the end of the payload reads the same empty
\* slice; the unbounded run of them is folded onto the MaxOverrun indices
\* that follow the payload
NextIndex ==
    IF index >= Len(app.binary_content) + MaxOverrun
    THEN Len(app.binary_content) + 1
    ELSE index + 1

\* a mutation of Store: a key that is present keeps its record
StoreKeepFirst(d, k, v) == [x \in DOMAIN d \cup {k} |-> IF x \in DOMAIN d THEN d[x] ELSE v]

\* return_dict[appid] = app
Store(d, k, v) == [x \in DOMAIN d \cup {k} |-> IF x = k THEN v ELSE d[x]]

(***************************************************************************)
(* The steps of read_appinfo.                                              *)
(***************************************************************************)
Init ==
    /\ buf = <<>>
    /\ pos = 0
    /\ pc = "open"
    /\ err = "none"
    /\ return_dict = <<>>
    /\ appid = 0
    /\ end = 0
    /\ app = NoApp
    /\ index = 0
    /\ name = <<>>
    /\ obj_type = <<>>

\* line 45: the file at `path` is opened; its content is any of Inputs
Open ==
    /\ pc = "open"
    /\ buf' \in Inputs
    /\ pc' = "header"
    /\ UNCHANGED <<pos, err, return_dict, appid, end, app, index, name, obj_type>>

\* lines 48-56, the header is accepted
ReadHeader ==
    /\ pc = "header"
    /\ \E o \in HeaderOutcomes :
         /\ o.kind = "ok"
         /\ pos' = o.pos
    /\ pc' = "loop"
    /\ UNCHANGED <<buf, err, return_dict, appid, end, app, index, name, obj_type>>

\* lines 48-56, an exception leaves the function
HeaderFail ==
    /\ pc = "header"
    /\ \E o \in HeaderOutcomes :
         /\ o.kind = "error"
         /\ pos' = o.pos
         /\ err' = o.err
    /\ pc' = "error"
    /\ UNCHANGED <<buf, return_dict, appid, end, app, index, name, obj_type>>

\* lines 60-62 and 107: appid 0 leaves the loop and the dictionary is returned
Break ==
    /\ pc = "loop"
    /\ RecordRead(pos).kind = "break"
    /\ pos' = RecordRead(pos).pos
    /\ appid' = 0
    /\ pc' = "done"
    /\ UNCHANGED <<buf, err, return_dict, end, app, index, name, obj_type>>

\* lines 60-79: a record is read
ReadRecord ==
    /\ pc = "loop"
    /\ RecordRead(pos).kind = "ok"
    /\ pos' = RecordRead(pos).pos
    /\ appid' = RecordRead(pos).appid
    /\ end' = RecordRead(pos).end
    /\ app' = RecordRead(pos).app
    /\ pc' = "name"
    /\ UNCHANGED <<buf, err, return_dict, index, name, obj_type>>

\* lines 60-79: an exception leaves the function
RecordFail ==
    /\ pc = "loop"
    /\ RecordRead(pos).kind = "error"
    /\ pos' = RecordRead(pos).pos
    /\ appid' = RecordRead(pos).appid
    /\ end' = RecordRead(pos).end
    /\ err' = RecordRead(pos).err
    /\ pc' = "error"
    /\ UNCHANGED <<buf, return_dict, app, index, name, obj_type>>

\* lines 82-84
FindName ==
    /\ pc = "name"
    /\ name' = <<>>
    /\ IF Contains(app.binary_content, NameMarker)
       THEN /\ index' = IndexOf(app.binary_content, NameMarker) + MarkerLen
            /\ pc' = "name_scan"
       ELSE /\ index' = index
            /\ pc' = "type"
    /\ UNCHANGED <<buf, pos, err, return_dict, appid, end, app, obj_type>>

\* lines 85-87: one pass of the while loop
ScanName ==
    /\ pc = "name_scan"
    /\ Current # <<0>>
    /\ name' = name \o Current
    /\ index' = NextIndex
    /\ UNCHANGED <<buf, pos, pc, err, return_dict, appid, end, app, obj_type>>

\* line 88, the name is decoded
SetName ==
    /\ pc = "name_scan"
    /\ Current = <<0>>
    /\ Decode(name).ok
    /\ app' = [app EXCEPT !.name = Some(Decode(name).text)]
    /\ pc' = "type"
    /\ UNCHANGED <<buf, pos, err, return_dict, appid, end, index, name, obj_type>>

\* line 88, bytes.decode raises
NameFail ==
    /\ pc = "name_scan"
    /\ Current = <<0>>
    /\ ~Decode(name).ok
    /\ err' = "UnicodeDecodeError"
    /\ pc' = "error"
    /\ UNCHANGED <<buf, pos, return_dict, appid, end, app, index, name, obj_type>>

\* a mutation of TypeMarked: the type is looked for only when no name was found
TypeMarkedElse == Contains(app.binary_content, TypeMarker) /\ ~app.name.some

\* the test of line 92
TypeMarked == Contains(app.binary_content, TypeMarker)

\* lines 91-93
FindType ==
    /\ pc = "type"
    /\ obj_type' = <<>>
    /\ IF TypeMarked
       THEN /\ index' = IndexOf(app.binary_content, TypeMarker) + MarkerLen
            /\ pc' = "type_scan"
       ELSE /\ index' = index
            /\ pc' = "icon"
    /\ UNCHANGED <<buf, pos, err, return_dict, appid, end, app, name>>

\* lines 94-96: one pass of the while loop
ScanType ==
    /\ pc = "type_scan"
    /\ Current # <<0>>
    /\ obj_type' = obj_type \o Current
    /\ index' = NextIndex
    /\ UNCHANGED <<buf, pos, pc, err, return_dict, appid, end, app, name>>

\* a mutation of KnownType: the tag is accepted whatever the case of its letters
Lower(t) == [i \in 1..Len(t) |-> IF t[i] >= 65 /\ t[i] <= 90 THEN t[i] + 32 ELSE t[i]]
KnownTypeAnyCase(t) == \E u \in ItemTypes : Lower(u) = Lower(t)

\* the test of line 97
KnownType(t) == t \in ItemTypes

\* lines 97-98
SetType ==
    /\ pc = "type_scan"
    /\ Current = <<0>>
    /\ app' = IF KnownType(obj_type)
              THEN [app EXCEPT !.type = Some(Decode(obj_type).text)]
              ELSE app
    /\ pc' = "icon"
    /\ UNCHANGED <<buf, pos, err, return_dict, appid, end, index, name, obj_type>>

\* binary_content[index: index + 40] of line 103, for the index after the marker
IconBytes(content) ==
    LET i == IndexOf(content, IconMarker) + MarkerLen
    IN  Slice(content, i, i + IconLen)

\* lines 101-103, no marker or the value is decoded
SetIcon ==
    /\ pc = "icon"
    /\ IF Contains(app.binary_content, IconMarker)
       THEN /\ Decode(IconBytes(app.binary_content)).ok
            /\ index' = IndexOf(app.binary_content, IconMarker) + MarkerLen
            /\ app' = [app EXCEPT !.icon_hash = Some(Decode(IconBytes(app.binary_content)).text)]
       ELSE /\ index' = index
            /\ app' = app
    /\ pc' = "insert"
    /\ UNCHANGED <<buf, pos, err, return_dict, appid, end, name, obj_type>>

\* line 103, bytes.decode raises
IconFail ==
    /\ pc = "icon"
    /\ Contains(app.binary_content, IconMarker)
    /\ ~Decode(IconBytes(app.binary_content)).ok
    /\ index' = IndexOf(app.binary_content, IconMarker) + MarkerLen
    /\ err' = "UnicodeDecodeError"
    /\ pc' = "error"
    /\ UNCHANGED <<buf, pos, return_dict, appid, end, app, name, obj_type>>

\* line 105
Insert ==
    /\ pc = "insert"
    /\ return_dict' = Store(return_dict, appid, app)
    /\ pc' = "loop"
    /\ UNCHANGED <<buf, pos, err, appid, end, app, index, name, obj_type>>

Next ==
    \/ Open
    \/ ReadHeader
    \/ HeaderFail
    \/ Break
    \/ ReadRecord
    \/ RecordFail
    \/ FindName
    \/ ScanName
    \/ SetName
    \/ NameFail
    \/ FindType
    \/ ScanType
    \/ SetType
    \/ SetIcon
    \/ IconFail
    \/ Insert

Spec == Init /\ [][Next]_vars

\* the interpreter keeps running the function until it returns or raises
FairSpec == Spec /\ WF_vars(Next)

(***************************************************************************)
(* The layout of a file as the format defines it, read off the bytes       *)
(* without the file object: the records that the declared sizes delimit.   *)
(***************************************************************************)
\* info_state, last_updated, picsToken, sha1Text, change_number, sha1Binary
FixedLen == 4 + 4 + 8 + 20 + 4 + 20

RECURSIVE Walk(_, _)
\* the records of b from position p on, and how the sequence ends: at the
\* sentinel, at the end of the bytes ("cut"), or at a record whose declared
\* size does not cover the fixed fields ("undersized")
Walk(b, p) ==
    IF p + 4 > Len(b) THEN [recs |-> <<>>, end |-> "cut"]
    ELSE IF Unpack(Slice(b, p, p + 4)) = 0 THEN [recs |-> <<>>, end |-> "sentinel"]
    ELSE IF p + 8 > Len(b) THEN [recs |-> <<>>, end |-> "cut"]
    ELSE LET size == Unpack(Slice(b, p + 4, p + 8))
         IN  IF size < FixedLen THEN [recs |-> <<>>, end |-> "undersized"]
             ELSE IF p + 8 + size > Len(b) THEN [recs |-> <<>>, end |-> "cut"]
             ELSE LET rest == Walk(b, p + 8 + size)
                  IN  [recs |-> <<[id |-> Unpack(Slice(b, p, p + 4)),
                                   payload |-> Slice(b, p + 8 + FixedLen, p + 8 + size),
                                   stop |-> p + 8 + size]>>
                                \o rest.recs,
                       end |-> rest.end]

Records(b) == Walk(b, 16).recs

Ids(b) == { Records(b)[i].id : i \in 1..Len(Records(b)) }

\* the string table offset of the header, when it is below 2^32
OffsetOf(b) == Unpack(Slice(b, 8, 12))

\* valid magic and a string table offset that points inside the buffer: the
\* 4 bytes of string_count at it lie inside the buffer
HeaderInside(b) ==
    /\ Len(b) >= 16
    /\ Slice(b, 0, 4) = Magic
    /\ Slice(b, 12, 16) = <<0, 0, 0, 0>>
    /\ 16 + OffsetOf(b) + 4 <= Len(b)

\* the value that follows the first marker m of payload c ends with a zero byte
Closed(c, m) == Contains(c, m) => FindFrom(c, <<0>>, IndexOf(c, m) + MarkerLen) >= 0

\* the bytes between the first marker m of c and the next zero byte
ValueOf(c, m) ==
    Slice(c, IndexOf(c, m) + MarkerLen, FindFrom(c, <<0>>, IndexOf(c, m) + MarkerLen))

\* the bytes of c after the first marker m, at most n of them
After(c, m, n) == Slice(c, IndexOf(c, m) + MarkerLen, IndexOf(c, m) + MarkerLen + n)

\* the well-formed buffers of C1
WellFormed(b) ==
    /\ HeaderInside(b)
    /\ Walk(b, 16).end = "sentinel"
    /\ \A i \in 1..Len(Records(b)) :
         \A m \in {NameMarker, TypeMarker, IconMarker} : Closed(Records(b)[i].payload, m)

\* the name and the 40 bytes of the icon checksum are UTF-8 text
TextValues(c) ==
    /\ Contains(c, NameMarker) => Utf8Valid(ValueOf(c, NameMarker))
    /\ Contains(c, IconMarker) => Utf8Valid(After(c, IconMarker, IconLen))

WellFormedText(b) ==
    /\ WellFormed(b)
    /\ \A i \in 1..Len(Records(b)) : TextValues(Records(b)[i].payload)

Returned == pc = "done"
Raised == pc = "error"

(***************************************************************************)
(* C1.  As claimed: on every well-formed buffer (valid magic, string table *)
(* offset inside the buffer, records whose declared size covers the fixed  *)
(* fields and fits, marker values zero-terminated, closing appid 0) the    *)
(* function raises nothing and returns a dictionary whose keys are the     *)
(* appids in front of the first appid 0.                                   *)
(***************************************************************************)
C1_Original ==
    WellFormed(buf) => /\ ~Raised
                       /\ Returned => DOMAIN return_dict = Ids(buf)

\* C1, the part of it that the code keeps: when moreover the name and icon
\* values are UTF-8 text, the function ends by returning a dictionary whose
\* keys are exactly the appids in front of the first appid 0 (none of a
\* record placed after it).
C1_WellFormedDecodes ==
    WellFormedText(buf) ~> (Returned /\ DOMAIN return_dict = Ids(buf))

C1_Witness ==
    /\ Returned
    /\ WellFormedText(buf)
    /\ Cardinality(DOMAIN return_dict) = 2
    /\ pos + Len(StringTable) < Len(buf)

(***************************************************************************)
(* C2.  As claimed: on every buffer the function ends, by returning at the *)
(* sentinel or by raising.                                                 *)
(***************************************************************************)
C2_Original == <>(Returned \/ Raised)

(***************************************************************************)
(* C3.  As claimed: a payload with a name (type) marker and no zero byte   *)
(* after it leaves the name (type) of the record None, the record is       *)
(* stored and the loop goes on to the next record.                         *)
(***************************************************************************)
OpenName == pc = "name" /\ ~Closed(app.binary_content, NameMarker)
OpenType == pc = "type" /\ ~Closed(app.binary_content, TypeMarker)
Stored == pc = "loop" /\ appid \in DOMAIN return_dict /\ return_dict[appid] = app

C3_Original ==
    /\ OpenName ~> (Stored /\ ~app.name.some)
    /\ OpenType ~> (Stored /\ ~app.type.some)

(***************************************************************************)
(* C4.  A buffer whose first 4 bytes are not the magic, a buffer of fewer  *)
(* than 4 bytes included, raises SyntaxError before anything else is read: *)
(* no record is read and no dictionary is returned.                        *)
(***************************************************************************)
C4_BadMagicRaises ==
    (pc # "open" /\ Slice(buf, 0, 4) # Magic) =>
        /\ pc \in {"header", "error"}
        /\ Raised => err = "SyntaxError"
        /\ return_dict = <<>>
        /\ app = NoApp
        /\ pos <= 4

C4_Witness == Raised /\ err = "SyntaxError" /\ Len(buf) = 3 /\ return_dict = <<>>

(***************************************************************************)
(* C5.  As claimed: a buffer with valid magic that ends before the         *)
(* sentinel is read (a record declares a size past the end of the buffer,  *)
(* or the bytes stop earlier) makes the function raise, and a dictionary   *)
(* is returned only after the sentinel has been read.                      *)
(***************************************************************************)
Truncated(b) ==
    /\ Slice(b, 0, 4) = Magic
    /\ Len(b) < 16 \/ Walk(b, 16).end = "cut"

C5_Original ==
    /\ (pc = "header" /\ Truncated(buf)) ~> Raised
    /\ [](Returned => Walk(buf, 16).end = "sentinel")

(***************************************************************************)
(* C6.  As claimed: once a record that lies inside the buffer has been     *)
(* read, the next pass of the loop reads its appid at `end`, the position  *)
(* after the size field plus the declared size, whatever the declared size *)
(* (sizes that do not cover the fixed fields included) and the payload.    *)
(***************************************************************************)
C6_Original == (pc = "loop" /\ app # NoApp /\ end <= Len(buf)) => pos = end

(***************************************************************************)
(* C7.  The type value v of a payload (type marker, v, zero byte) is kept  *)
(* when v is one of the accepted tags and dropped otherwise, and nothing   *)
(* is raised on the way.                                                   *)
(***************************************************************************)
\* the eight tags of the claim
ClaimedTags ==
    {T_Game, T_DLC, T_Demo, T_Config, T_Beta, T_Tool, T_OwnersOnly, T_Application}

\* the same with the owners-only tag in lower case
LowerCaseTags == (ClaimedTags \ {T_OwnersOnly}) \cup {T_ownersonly}

TypeRead ==
    /\ pc = "icon"
    /\ Contains(app.binary_content, TypeMarker)
    /\ Closed(app.binary_content, TypeMarker)

TypeKept(tags) ==
    app.type = IF ValueOf(app.binary_content, TypeMarker) \in tags
               THEN Some(ValueOf(app.binary_content, TypeMarker))
               ELSE None

\* C7 as claimed, with the tag "OwnersOnly"
C7_Original == TypeRead => TypeKept(ClaimedTags)

\* C7 as amended: the accepted tags are Game, DLC, Demo, Config, Beta, Tool,
\* ownersonly (lower case) and Application, compared byte for byte; the other
\* values, "OwnersOnly" and "Unknown" among them, leave the type None; the
\* scan of a type value never ends in an exception.
C7_ClosedSet ==
    /\ [](TypeRead => TypeKept(LowerCaseTags))
    /\ [][pc = "type_scan" => pc' \in {"type_scan", "icon"}]_vars

C7_Witness ==
    /\ TypeRead
    /\ ValueOf(app.binary_content, TypeMarker) = T_ownersonly
    /\ app.type = Some(T_ownersonly)

(***************************************************************************)
(* C8.  Each of name, type and icon_hash of a record is decided by its own *)
(* marker alone: it is None when its marker does not occur in the payload, *)
(* and otherwise it is the value read after the first occurrence of its    *)
(* marker, whether or not the two other markers occur.  A payload with     *)
(* only a name marker gives a name and no type and no icon_hash.           *)
(***************************************************************************)
Independent(r) ==
    LET c == r.binary_content
    IN  /\ r.name = IF Contains(c, NameMarker)
                    THEN Some(Decode(ValueOf(c, NameMarker)).text)
                    ELSE None
        /\ r.type = IF Contains(c, TypeMarker) /\ ValueOf(c, TypeMarker) \in LowerCaseTags
                    THEN Some(ValueOf(c, TypeMarker))
                    ELSE None
        /\ r.icon_hash = IF Contains(c, IconMarker)
                         THEN Some(Decode(After(c, IconMarker, IconLen)).text)
                         ELSE None

OnlyName(c) == Contains(c, NameMarker) /\ ~Contains(c, TypeMarker) /\ ~Contains(c, IconMarker)

C8_Independent ==
    /\ pc = "insert" => Independent(app)
    /\ \A k \in DOMAIN return_dict : Independent(return_dict[k])
    /\ (pc = "insert" /\ OnlyName(app.binary_content)) =>
          (app.name.some /\ ~app.type.some /\ ~app.icon_hash.some)

C8_Witness ==
    /\ pc = "insert"
    /\ OnlyName(app.binary_content)
    /\ app.name = Some(N_TF)
    /\ app.type = None
    /\ app.icon_hash = None

(***************************************************************************)
(* C9.  The dictionary holds one record per appid, and for an appid that   *)
(* several records of the buffer carry it holds the last of them in buffer *)
(* order, with the fields decoded from that record's payload.              *)
(***************************************************************************)
\* the records of b that end at or before position q
ReadBy(b, q) == SelectSeq(Records(b), LAMBDA r : r.stop <= q)

\* the last record of sequence rs with appid k
LastOf(rs, k) ==
    rs[CHOOSE i \in 1..Len(rs) : rs[i].id = k /\ \A j \in (i + 1)..Len(rs) : rs[j].id # k]

\* position q is a record boundary of b
Boundary(b, q) == q = 16 \/ \E i \in 1..Len(Records(b)) : Records(b)[i].stop = q

C9_LastWriteWins ==
    ((pc = "loop" /\ Boundary(buf, pos)) \/ Returned) =>
        /\ DOMAIN return_dict = { ReadBy(buf, pos)[i].id : i \in 1..Len(ReadBy(buf, pos)) }
        /\ \A k \in DOMAIN return_dict :
             /\ return_dict[k].appid = k
             /\ return_dict[k].binary_content = LastOf(ReadBy(buf, pos), k).payload
             /\ Independent(return_dict[k])

C9_Witness ==
    /\ Returned
    /\ \E i, j \in 1..Len(Records(buf)) :
         /\ i < j
         /\ Records(buf)[i].id = Records(buf)[j].id
         /\ Records(buf)[i].payload # Records(buf)[j].payload
         /\ return_dict[Records(buf)[i].id].name # Some(Decode(ValueOf(Records(buf)[i].payload, NameMarker)).text)

(***************************************************************************)
(* C10.  As claimed: in a returned dictionary every icon_hash is None or a *)
(* text of exactly 40 characters, the 40 payload bytes that follow the     *)
(* first icon marker.                                                      *)
(***************************************************************************)
C10_Original ==
    Returned =>
        \A k \in DOMAIN return_dict :
            return_dict[k].icon_hash.some =>
                /\ Len(return_dict[k].icon_hash.v) = IconLen
                /\ return_dict[k].icon_hash.v = After(return_dict[k].binary_content, IconMarker, IconLen)

(***************************************************************************)
(* C11.  As claimed: on a buffer with valid magic and the 12 bytes of      *)
(* universe and string table offset, whose records are sound up to the     *)
(* sentinel, the header is accepted whatever the string table offset is    *)
(* (offsets past the end of the buffer included), nothing at the string    *)
(* table decides the outcome, and the cursor is left at offset 16.         *)
(***************************************************************************)
\* the header is about to be read from a buffer that has the 16 bytes of it
\* and sound records after them
HeaderPresent ==
    /\ pc = "header"
    /\ Len(buf) >= 16
    /\ Slice(buf, 0, 4) = Magic
    /\ Walk(buf, 16).end = "sentinel"

C11_Original == [][HeaderPresent => (pc' = "loop" /\ pos' = 16)]_vars

(***************************************************************************)
(* C12.  As claimed: a read of n bytes returns exactly n bytes and moves   *)
(* the position by n, or fails; it never returns fewer bytes than asked    *)
(* and never leaves the position past the end of the buffer.  Seen on a    *)
(* record that was read without an exception: its two digests have 20      *)
(* bytes each, its payload has the end - position bytes that were asked    *)
(* for (when that number is not negative) and the position is at `end`,    *)
(* inside the buffer.                                                      *)
(***************************************************************************)
\* a record has just been read by lines 60-79 without an exception
RecordJustRead == pc = "name"

\* the n of f.read(n) at line 78: `end` minus the position in front of the
\* payload
PayloadAsked == end - (pos - Len(app.binary_content))

C12_Original ==
    RecordJustRead =>
        /\ Len(app.sha1Text) = DigestLen
        /\ Len(app.sha1Binary) = DigestLen
        /\ PayloadAsked >= 0 => (Len(app.binary_content) = PayloadAsked /\ pos = end)
        /\ pos <= Len(buf)

(***************************************************************************)
(* C13.  In a payload where the name marker occurs and a zero byte follows *)
(* its first occurrence, the name is read from the first occurrence: the   *)
(* bytes collected when the scan ends are those from just after the first  *)
(* marker up to, not including, the next zero byte, and the name of the    *)
(* record is these bytes decoded, whatever follows them (later name        *)
(* markers included).  One record of appid 440 with payload name marker,   *)
(* "Team Fortress 2", zero byte is returned as {440: name "Team Fortress   *)
(* 2", type None, icon_hash None}.                                         *)
(***************************************************************************)
\* the marker m is at 0-based position k of c
MarkerAt(c, m, k) == k >= 0 /\ k + Len(m) <= Len(c) /\ SubSeq(c, k + 1, k + Len(m)) = m

\* the position after the first name marker of c
FirstNameStart(c) ==
    MarkerLen + CHOOSE k \in 0..Len(c) :
                    MarkerAt(c, NameMarker, k) /\ \A h \in 0..(k - 1) : ~MarkerAt(c, NameMarker, h)

\* the 1-based positions of the zero bytes of c after 0-based position i
ZerosAfter(c, i) == {z \in (i + 1)..Len(c) : c[z] = 0}

\* the name marker occurs in c and a zero byte follows its first occurrence
NameClosed(c) ==
    /\ \E k \in 0..Len(c) : MarkerAt(c, NameMarker, k)
    /\ ZerosAfter(c, FirstNameStart(c)) # {}

\* the bytes from just after the first name marker of c to the next zero byte
FirstName(c) ==
    LET i == FirstNameStart(c)
        z == CHOOSE z \in ZerosAfter(c, i) : \A y \in ZerosAfter(c, i) : z <= y
    IN  [n \in 1..(z - 1 - i) |-> c[i + n]]

C13_FirstNameMarker ==
    /\ (pc = "name_scan" /\ Current = <<0>>) =>
          (NameClosed(app.binary_content) /\ name = FirstName(app.binary_content))
    /\ (pc \in {"type", "type_scan", "icon", "insert"} /\ NameClosed(app.binary_content)) =>
          app.name = Some(Decode(FirstName(app.binary_content)).text)
    /\ \A k \in DOMAIN return_dict :
          NameClosed(return_dict[k].binary_content) =>
              return_dict[k].name = Some(Decode(FirstName(return_dict[k].binary_content)).text)
    /\ (Returned /\ Len(Records(buf)) = 1 /\ Records(buf)[1].id = TeamFortress2
           /\ Records(buf)[1].payload = WithName(N_TeamFortress2)) =>
          /\ DOMAIN return_dict = {TeamFortress2}
          /\ return_dict[TeamFortress2].name = Some(N_TeamFortress2)
          /\ return_dict[TeamFortress2].type = None
          /\ return_dict[TeamFortress2].icon_hash = None

\* a record with two name markers was returned with the name of the first
C13_Witness ==
    /\ Returned
    /\ TeamFortress2 \in DOMAIN return_dict
    /\ return_dict[TeamFortress2].name = Some(N_TeamFortress2)
    /\ Contains(return_dict[TeamFortress2].binary_content, NameMarker \o N_TF)

(***************************************************************************)
(* C14.  The step that reads a record (lines 60-79) starts at the appid,   *)
(* reads the size and then the fixed fields info_state, last_updated,      *)
(* picsToken, sha1Text, change_number and sha1Binary; the payload is what  *)
(* is read next, up to `end`.                                              *)
(***************************************************************************)
\* the step of lines 60-79 that reads a record
RecordStep == pc = "loop" /\ pc' = "name"

\* the position after the size field, where the fixed fields start
FieldsStart == pos + 8

\* the declared size of the record that the step reads
DeclaredSize == end' - FieldsStart

\* the position in front of the payload, after the step
PayloadStart == pos' - Len(app'.binary_content)

\* the record that the step reads has n bytes of fixed fields: when n bytes
\* follow the size field the fixed fields take n bytes, and when moreover the
\* declared size covers them and the record lies inside the buffer the
\* payload is the declaredSize - n bytes that follow them, up to `end`
FixedFieldsTake(n) ==
    /\ FieldsStart + n <= Len(buf) => PayloadStart - FieldsStart = n
    /\ (DeclaredSize >= n /\ end' <= Len(buf)) =>
          /\ Len(app'.binary_content) = end' - PayloadStart
          /\ Len(app'.binary_content) = DeclaredSize - n
          /\ app'.binary_content = Slice(buf, FieldsStart + n, end')
          /\ pos' = end'

====
